---- MODULE Spec2Model ----
(***************************************************************************)
(* Mesh packet engine of the LoRa module: the wire codec                   *)
(* (MeshtasticProtocol.encode_packet / decode_packet), the seen-packet     *)
(* cache, the node table, the managed-flooding decision and the            *)
(* LoRaModule handlers that drive them over the SX1262 radio.              *)
(*                                                                         *)
(* Bytes are integers 0..255, byte strings are sequences of bytes, Python  *)
(* str values are sequences of Unicode code points.  Time is in seconds.   *)
(* The engines are in Meshtastic mode on enabled hardware.  A transmitted  *)
(* frame is on the channel for good; a receive reads the radio's whole     *)
(* 255-byte buffer, the frame followed by whatever the buffer held.        *)
(***************************************************************************)
EXTENDS Integers, Sequences, FiniteSets, TLC

VARIABLES
    \* ---- mesh: one LoRaModule + MeshtasticProtocol per engine ----
    now,                \* time.time(), whole seconds
    packet_id_counter,  \* [engine -> MeshtasticProtocol.packet_id_counter]
    seen_packets,       \* [engine -> [packet id -> timestamp]]
    nodes,              \* [engine -> [node id -> [last_seen, rssi, snr]]]
    messages,           \* [engine -> LoRaModule.messages]
    air,                \* frames the engines handed to SX1262.transmit
    foreign,            \* frames other transmitters put on the channel
    node_id,            \* [engine -> MeshtasticProtocol.node_id]
    last,               \* what the most recent handler run did (history)
    runs,               \* handler runs so far (history)
    ui,                 \* [engine -> the callback its UI main loop is running]
    in_flight,          \* [engine -> the SX1262 calls that have not returned]
    first_seen,         \* [engine -> [cached packet id -> when it was cached]] (history)
    \* ---- LoRaModule's mode and what on_load left it to choose from ----
    mode,               \* [engine -> LoRaModule.mode]
    handlers,           \* [engine -> which of sx1262, meshtastic, Reticulum exist]
    tuning,             \* [engine -> frequency, spreading_factor, tx_power of its SX1262]
    menu,               \* the last show_menu: engine, items, index returned (history)
    \* ---- codec harness: one frame through encode_packet / decode_packet ----
    cStage, cPacket, cFrame, cInput, cResult

uiVars    == <<ui, in_flight>>
modeVars  == <<mode, handlers, tuning, menu>>
meshVars  == <<now, packet_id_counter, seen_packets, nodes, messages, air, foreign,
               node_id, last, runs, ui, in_flight, first_seen, mode, handlers, tuning,
               menu>>
codecVars == <<cStage, cPacket, cFrame, cInput, cResult>>
vars      == <<now, packet_id_counter, seen_packets, nodes, messages, air, foreign,
               node_id, last, runs, ui, in_flight, first_seen, mode, handlers, tuning,
               menu, cStage, cPacket, cFrame, cInput, cResult>>

----------------------------------------------------------------------------
\* Program constants

\* A Python int wider than 31 bits is kept as <<hi, lo>>, standing for
\* 65536 * hi + lo with lo in 0..65535
Wide(hi, lo) == << hi, lo >>

WideInc(x) == IF x[2] = 65535 THEN Wide(x[1] + 1, 0) ELSE Wide(x[1], x[2] + 1)

WideGt(x, y) == x[1] > y[1] \/ (x[1] = y[1] /\ x[2] > y[2])

\* 0xFFFFFFFF
BROADCAST_ADDR == Wide(65535, 65535)

PACKET_TIMEOUT_MS == 300000

TEXT_MESSAGE_APP == 1

POSITION_APP == 3

NODEINFO_APP == 4

\* the jitter window REBROADCAST_DELAY_MS = (100, 200), in milliseconds
REBROADCAST_DELAY_MS == <<100, 200>>

\* largest value struct's 'I' format packs, 0xFFFFFFFF
U32Max == Wide(65535, 65535)

\* 0 <= x <= 0xFFFFFFFF
InU32(x) == x[1] \in 0..65535

----------------------------------------------------------------------------
\* Bytes

Min(a, b) == IF a <= b THEN a ELSE b

\* s[lo] + ... + s[hi]: ranges of up to four bytes added directly, longer
\* ranges halved
RECURSIVE SumRange(_, _, _)
SumRange(s, lo, hi) ==
    IF lo > hi THEN 0
    ELSE IF hi - lo = 0 THEN s[lo]
    ELSE IF hi - lo = 1 THEN s[lo] + s[hi]
    ELSE IF hi - lo = 2 THEN s[lo] + s[lo + 1] + s[hi]
    ELSE IF hi - lo = 3 THEN s[lo] + s[lo + 1] + s[lo + 2] + s[hi]
    ELSE SumRange(s, lo, (lo + hi) \div 2) + SumRange(s, (lo + hi) \div 2 + 1, hi)

\* sum(data): the additive sum of a byte string
SumBytes(s) == SumRange(s, 1, Len(s))

\* Python's data[lo:hi] for 0 <= lo, 0 <= hi: clipped to the string, never raises
Slice(s, lo, hi) == SubSeq(s, lo + 1, Min(hi, Len(s)))

\* struct.pack('<I', x) for x in range
LE32(x) == << x[2] % 256, x[2] \div 256, x[1] % 256, x[1] \div 256 >>

\* struct.pack('<H', x) for x in range
LE16(x) == << x % 256, (x \div 256) % 256 >>

\* struct.unpack('<I', b)[0] for a 4-byte string
UnLE32(b) == Wide(b[3] + 256 * b[4], b[1] + 256 * b[2])

\* struct.unpack('<H', b)[0] for a 2-byte string
UnLE16(b) == b[1] + 256 * b[2]

----------------------------------------------------------------------------
\* MeshPacket

\* the dataclass, with the defaults of its routing fields
MeshPacket(to, from_node, id, hop_limit, want_ack, port_num, payload) ==
    [to |-> to, from_node |-> from_node, id |-> id, hop_limit |-> hop_limit,
     want_ack |-> want_ack, port_num |-> port_num, payload |-> payload,
     rx_time |-> 0, rx_snr |-> 0, rx_rssi |-> 0, hop_start |-> 0]

\* Python's None where a MeshPacket is expected
NoPacket == [none |-> TRUE]

\* encode_packet with the flags byte built under a 2-bit hop mask
encode_packet_mask03(packet) ==
    IF \/ ~InU32(packet.to)
       \/ ~InU32(packet.from_node)
       \/ ~InU32(packet.id)
       \/ packet.port_num \notin 0..255
       \/ Len(packet.payload) > 65535
    THEN <<>>
    ELSE LET flags  == (packet.hop_limit % 4) + (IF packet.want_ack THEN 8 ELSE 0)
             header == LE32(packet.to) \o LE32(packet.from_node) \o LE32(packet.id)
                       \o << flags, packet.port_num, Len(packet.payload) % 256 >>
             data   == header \o LE16(Len(packet.payload)) \o packet.payload
         IN  Append(data, SumBytes(data) % 256)

\* MeshtasticProtocol.encode_packet: the frame, or b'' when struct.pack raises
encode_packet(packet) ==
    IF \/ ~InU32(packet.to)
       \/ ~InU32(packet.from_node)
       \/ ~InU32(packet.id)
       \/ packet.port_num \notin 0..255
       \/ Len(packet.payload) > 65535
    THEN <<>>
    ELSE LET flags  == (packet.hop_limit % 8) + (IF packet.want_ack THEN 8 ELSE 0)
             header == LE32(packet.to) \o LE32(packet.from_node) \o LE32(packet.id)
                       \o << flags, packet.port_num, Len(packet.payload) % 256 >>
             data   == header \o LE16(Len(packet.payload)) \o packet.payload
         IN  Append(data, SumBytes(data) % 256)

\* the packet decode_packet builds from a frame of at least 17 bytes
ParsedPacket(data) ==
    LET flags          == data[13]
        payload_length == UnLE16(Slice(data, 15, 17))
    IN  MeshPacket(UnLE32(Slice(data, 0, 4)), UnLE32(Slice(data, 4, 8)),
                   UnLE32(Slice(data, 8, 12)), flags % 8, (flags \div 8) % 2 = 1,
                   data[14], Slice(data, 17, 17 + payload_length))

\* decode_packet comparing only the low 7 bits of the checksum
decode_packet_sum7(data) ==
    IF Len(data) < 16 THEN [kind |-> "TooShort", packet |-> NoPacket]
    ELSE IF Len(Slice(data, 15, 17)) < 2
         THEN [kind |-> "DecodeError", packet |-> NoPacket]
    ELSE IF data[Len(data)] % 128 # SumRange(data, 1, Len(data) - 1) % 128
         THEN [kind |-> "ChecksumMismatch", packet |-> NoPacket]
    ELSE [kind |-> "Ok", packet |-> ParsedPacket(data)]

\* decode_packet without the checksum comparison
decode_packet_nosum(data) ==
    IF Len(data) < 16 THEN [kind |-> "TooShort", packet |-> NoPacket]
    ELSE IF Len(Slice(data, 15, 17)) < 2
         THEN [kind |-> "DecodeError", packet |-> NoPacket]
    ELSE [kind |-> "Ok", packet |-> ParsedPacket(data)]

\* MeshtasticProtocol.decode_packet.  kind names the return taken: "TooShort" the
\* length check, "DecodeError" the except branch (struct.unpack of a 1-byte
\* slice), "ChecksumMismatch" the checksum check, "Ok" the packet; every kind but
\* "Ok" returns None
decode_packet(data) ==
    IF Len(data) < 16 THEN [kind |-> "TooShort", packet |-> NoPacket]
    ELSE IF Len(Slice(data, 15, 17)) < 2
         THEN [kind |-> "DecodeError", packet |-> NoPacket]
    ELSE IF data[Len(data)] # SumRange(data, 1, Len(data) - 1) % 256
         THEN [kind |-> "ChecksumMismatch", packet |-> NoPacket]
    ELSE [kind |-> "Ok", packet |-> ParsedPacket(data)]

----------------------------------------------------------------------------
\* UTF-8 (str.encode('utf-8') / bytes.decode('utf-8'))

\* one code point, not a surrogate
Utf8EncodeCp(c) ==
    IF c < 128 THEN << c >>
    ELSE IF c < 2048 THEN << 192 + (c \div 64), 128 + (c % 64) >>
    ELSE IF c < 65536
         THEN << 224 + (c \div 4096), 128 + ((c \div 64) % 64), 128 + (c % 64) >>
    ELSE << 240 + (c \div 262144), 128 + ((c \div 4096) % 64),
            128 + ((c \div 64) % 64), 128 + (c % 64) >>

\* str.encode('utf-8'): the code points' encodings in order (halved, so that
\* long texts do not nest deeply)
RECURSIVE Utf8Encode(_)
Utf8Encode(text) ==
    IF text = <<>> THEN <<>>
    ELSE IF Len(text) = 1 THEN Utf8EncodeCp(text[1])
    ELSE LET half == Len(text) \div 2
         IN  Utf8Encode(SubSeq(text, 1, half)) \o Utf8Encode(SubSeq(text, half + 1, Len(text)))

\* strict decoding: ok is FALSE where Python raises UnicodeDecodeError
RECURSIVE Utf8Decode(_)
Utf8Decode(b) ==
    IF b = <<>> THEN [ok |-> TRUE, text |-> <<>>]
    ELSE LET b1 == b[1]
             n  == IF b1 < 128 THEN 1
                   ELSE IF b1 \in 194..223 THEN 2
                   ELSE IF b1 \in 224..239 THEN 3
                   ELSE IF b1 \in 240..244 THEN 4
                   ELSE 0
             cont(i) == i <= Len(b) /\ b[i] \in 128..191
             valid == \/ n = 1
                      \/ n = 2 /\ cont(2)
                      \/ /\ n = 3 /\ cont(2) /\ cont(3)
                         /\ (b1 = 224 => b[2] >= 160)
                         /\ (b1 = 237 => b[2] <= 159)
                      \/ /\ n = 4 /\ cont(2) /\ cont(3) /\ cont(4)
                         /\ (b1 = 240 => b[2] >= 144)
                         /\ (b1 = 244 => b[2] <= 143)
             cp == IF n = 1 THEN b1
                   ELSE IF n = 2 THEN (b1 - 192) * 64 + (b[2] - 128)
                   ELSE IF n = 3
                        THEN (b1 - 224) * 4096 + (b[2] - 128) * 64 + (b[3] - 128)
                   ELSE (b1 - 240) * 262144 + (b[2] - 128) * 4096
                        + (b[3] - 128) * 64 + (b[4] - 128)
             rest == Utf8Decode(SubSeq(b, n + 1, Len(b)))
         IN  IF ~valid THEN [ok |-> FALSE, text |-> <<>>]
             ELSE IF ~rest.ok THEN [ok |-> FALSE, text |-> <<>>]
             ELSE [ok |-> TRUE, text |-> << cp >> \o rest.text]

\* Optional[str]
NoMessage == [isNone |-> TRUE, text |-> <<>>]

SomeMessage(text) == [isNone |-> FALSE, text |-> text]

----------------------------------------------------------------------------
\* MeshtasticProtocol: the engine's operations on its own state

\* _get_next_packet_id with the wrap test written ">="
next_packet_id_wrap_ge(counter) ==
    IF ~WideGt(U32Max, WideInc(counter)) THEN Wide(0, 0) ELSE WideInc(counter)

\* _get_next_packet_id: the counter after the call, which is also the id returned
next_packet_id(counter) ==
    IF WideGt(WideInc(counter), U32Max) THEN Wide(0, 0) ELSE WideInc(counter)

\* send_text: the packet built for text, given the id just allocated
send_text_packet(self, id, text, to) ==
    MeshPacket(to, self, id, 3, FALSE, TEXT_MESSAGE_APP, Utf8Encode(text))

\* the four uppercase hexadecimal digits of v, 0 <= v < 65536, as code points
HexDigits4(v) ==
    LET digit(d) == IF d < 10 THEN 48 + d ELSE 55 + d
    IN  << digit(v \div 4096), digit((v \div 256) % 16), digit((v \div 16) % 16),
           digit(v % 16) >>

\* f"Node:0x{node_id:08X}", node_id below 2^36: eight digits, nine when the
\* value does not fit 32 bits
NodeInfoText(self) ==
    <<78, 111, 100, 101, 58, 48, 120>>
    \o (IF self[1] >= 65536 THEN SubSeq(HexDigits4(self[1] \div 65536), 4, 4) ELSE << >>)
    \o HexDigits4(self[1] % 65536) \o HexDigits4(self[2])

\* send_node_info: the packet built, given the id just allocated
send_node_info_packet(self, id) ==
    MeshPacket(BROADCAST_ADDR, self, id, 3, FALSE, NODEINFO_APP,
               Utf8Encode(NodeInfoText(self)))

\* seen_packets[id] = time.time()
mark_seen(seen, id, t) == [i \in DOMAIN seen \cup {id} |-> IF i = id THEN t ELSE seen[i]]

\* _clean_old_packets
clean_old_packets(seen, t) ==
    LET timeout == PACKET_TIMEOUT_MS \div 1000
        old_ids == {pid \in DOMAIN seen : (t - seen[pid]) > timeout}
    IN  [pid \in DOMAIN seen \ old_ids |-> seen[pid]]

\* _update_node: rssi and snr are read from the packet's rx_rssi / rx_snr
update_node(table, nid, packet, t) ==
    [i \in DOMAIN table \cup {nid} |->
        IF i = nid
        THEN [id |-> nid, last_seen |-> t, rssi |-> packet.rx_rssi, snr |-> packet.rx_snr]
        ELSE table[i]]

\* get_mesh_nodes: seconds after which a node is left out
stale_timeout == 600

\* get_mesh_nodes: the entries returned (the list's order is the table's)
get_mesh_nodes(table, t) ==
    { table[i] : i \in {j \in DOMAIN table : (t - table[j].last_seen) < stale_timeout} }

\* should_rebroadcast with the hop check written "< 0"
should_rebroadcast_hop_lt(seen, self, packet) ==
    IF packet.id \in DOMAIN seen THEN FALSE
    ELSE IF packet.hop_limit < 0 THEN FALSE
    ELSE IF packet.to = self THEN FALSE
    ELSE TRUE

\* should_rebroadcast without the "is it for us" check
should_rebroadcast_no_self(seen, self, packet) ==
    IF packet.id \in DOMAIN seen THEN FALSE
    ELSE IF packet.hop_limit <= 0 THEN FALSE
    ELSE TRUE

\* should_rebroadcast without the seen-packet check
should_rebroadcast_no_seen(seen, self, packet) ==
    IF packet.hop_limit <= 0 THEN FALSE
    ELSE IF packet.to = self THEN FALSE
    ELSE TRUE

\* should_rebroadcast
should_rebroadcast(seen, self, packet) ==
    IF packet.id \in DOMAIN seen THEN FALSE
    ELSE IF packet.hop_limit <= 0 THEN FALSE
    ELSE IF packet.to = self THEN FALSE
    ELSE TRUE

\* rebroadcast_packet that leaves want_ack at the dataclass default
rebroadcast_packet_default_ack(packet) ==
    MeshPacket(packet.to, packet.from_node, packet.id, packet.hop_limit - 1,
               FALSE, packet.port_num, packet.payload)

\* rebroadcast_packet
rebroadcast_packet(packet) ==
    MeshPacket(packet.to, packet.from_node, packet.id, packet.hop_limit - 1,
               packet.want_ack, packet.port_num, packet.payload)

\* process_received_packet without the test of the destination
received_message_any_dest(self, packet) ==
    IF packet.port_num = TEXT_MESSAGE_APP
    THEN LET d == Utf8Decode(packet.payload)
         IN  IF d.ok THEN SomeMessage(d.text) ELSE NoMessage
    ELSE NoMessage

\* process_received_packet: the value returned (the state changes are in
\* ProcessedSeen and update_node)
received_message(self, packet) ==
    IF packet.to = self \/ packet.to = BROADCAST_ADDR
    THEN IF packet.port_num = TEXT_MESSAGE_APP
         THEN LET d == Utf8Decode(packet.payload)
              IN  IF d.ok THEN SomeMessage(d.text) ELSE NoMessage
         ELSE NoMessage
    ELSE NoMessage

\* process_received_packet: seen_packets after "record as seen" and "clean old"
ProcessedSeen(seen, packet, t) == clean_old_packets(mark_seen(seen, packet.id, t), t)

----------------------------------------------------------------------------
\* Bounds of the model

\* latest clock value
MaxTime == 600

\* handler runs of a bounded behaviour, all engines together
MaxRuns == 2

\* sends per engine
MaxSends == 1

\* entries of LoRaModule.messages per engine
MaxMessages == 2

\* longest payload of the codec harness
MaxPayloadLen == 255

\* longest all-zero input of the codec harness
MaxRawLen == 19

\* packets built in a behaviour of the boot harness, all engines together
MaxAllocations == 2

\* ids ahead of the counter compared with one another
IdWindow == 4

\* length of the long text the user may type
LongTextLen == 256

\* clock steps
TickSteps == {300}

Engines == {"A", "B"}

\* config 'node_id' of each engine
ConfiguredNodeId == [n \in Engines |-> IF n = "A" THEN Wide(4096, 1) ELSE Wide(4096, 2)]

\* random.randint(0, 0xFFFFFFFF) of each engine's packet_id_counter
InitialCounter == [n \in Engines |-> IF n = "A" THEN Wide(0, 41) ELSE U32Max]

\* get_rssi() readings
RssiValues == {-90}

\* what the user types: "h" and e-acute (two bytes in UTF-8)
Texts == { <<104, 233>> }

----------------------------------------------------------------------------
\* The channel: frames of transmitters that are not modelled engines

\* a frame on the channel: who transmitted it, how many relays produced it, and
\* the hop_limit its originator gave it
OnAir(frame, by, depth, h0) == [frame |-> frame, by |-> by, depth |-> depth, h0 |-> h0]

\* receive() timed out: None
Silence == OnAir(<<>>, "none", 0, 0)

Originated(packet) == OnAir(encode_packet(packet), "ext", 0, packet.hop_limit)

\* byte b with bit k flipped
FlipBitOfByte(b, k) == IF (b \div (2 ^ k)) % 2 = 1 THEN b - 2 ^ k ELSE b + 2 ^ k

\* frame with bit i (0 = lowest bit of the first byte) flipped
FlipBit(frame, i) ==
    [j \in 1..Len(frame) |->
        IF j = (i \div 8) + 1 THEN FlipBitOfByte(frame[j], i % 8) ELSE frame[j]]

Zeros(k) == [j \in 1..k |-> 0]

ForeignText == MeshPacket(BROADCAST_ADDR, Wide(4096, 3), Wide(0, 7001), 3, FALSE,
                          TEXT_MESSAGE_APP, <<104, 105>>)

ForeignSpent == MeshPacket(BROADCAST_ADDR, Wide(4096, 3), Wide(0, 7002), 0, FALSE,
                           TEXT_MESSAGE_APP, <<104, 105>>)

ForeignToA == MeshPacket(Wide(4096, 1), Wide(4096, 3), Wide(0, 7003), 3, TRUE,
                         TEXT_MESSAGE_APP, <<121, 111>>)

ForeignToOther == MeshPacket(Wide(4096, 4), Wide(4096, 3), Wide(0, 7004), 1, FALSE,
                             TEXT_MESSAGE_APP, <<121, 111>>)

ForeignInfo == MeshPacket(BROADCAST_ADDR, Wide(4096, 3), Wide(0, 7005), 3, FALSE,
                          NODEINFO_APP, <<78>>)

ForeignPosition == MeshPacket(BROADCAST_ADDR, Wide(4096, 3), Wide(0, 7007), 2, FALSE,
                               POSITION_APP, <<1, 2>>)

ForeignBadText == MeshPacket(BROADCAST_ADDR, Wide(4096, 3), Wide(0, 7006), 2, FALSE,
                             TEXT_MESSAGE_APP, <<255>>)

\* what the surroundings may put on the channel, one scenario per behaviour
ForeignScenarios ==
    { { Originated(ForeignText),
        OnAir(FlipBit(encode_packet(ForeignText), 3), "ext", 0, 0) },
      { Originated(ForeignToA), Originated(ForeignSpent) },
      { Originated(ForeignToOther), Originated(ForeignInfo) },
      { OnAir(<<104, 101, 108, 108, 111>>, "ext", 0, 0), Originated(ForeignPosition) },
      { OnAir(Zeros(17), "ext", 0, 0), Originated(ForeignBadText) } }

----------------------------------------------------------------------------
\* SX1262.receive

\* bytes read from the chip's buffer on every receive
RX_BUFFER_LEN == 255

\* what may follow a frame in the chip's buffer: zeros, or zeros and a last byte
\* that happens to equal the sum of the bytes before it
BufferTails(frame) ==
    IF Len(frame) >= RX_BUFFER_LEN THEN { << >> }
    ELSE { Zeros(RX_BUFFER_LEN - Len(frame)),
           Append(Zeros(RX_BUFFER_LEN - Len(frame) - 1), SumBytes(frame) % 256) }

\* receive(): None on timeout (written << >>), otherwise the 255 bytes read from
\* the buffer, the frame first
RxData(src, tail) ==
    IF src.frame = << >> THEN << >>
    ELSE SubSeq(src.frame \o tail, 1, RX_BUFFER_LEN)

----------------------------------------------------------------------------
\* SX1262.transmit

\* what the hardware does with a transmit: the frame leaves the antenna, or the
\* SPI transfer or the BUSY wait fails
RadioOutcomes == {"transmitted", "failed"}

\* transmit(data): the failure is caught and logged inside transmit, which
\* returns None either way and raises nothing
transmit(data, radio) ==
    [raised |-> FALSE,
     radiated |-> IF radio = "transmitted" THEN << data >> ELSE << >>]

----------------------------------------------------------------------------
\* LoRaModule handlers, Meshtastic mode on enabled hardware

\* the names lora_module.py binds by import
ModuleImports == {"BaseModule", "List", "Tuple", "Callable", "Optional", "time",
                  "json", "os", "SX1262", "MeshtasticProtocol",
                  "get_meshtastic_lora_config", "RNS"}

\* receive_messages, the rebroadcast branch: the values of
\* random.randint(*REBROADCAST_DELAY_MS) in milliseconds; with the name random
\* unbound the line raises NameError and yields none
JitterDelays ==
    IF "random" \in ModuleImports
    THEN REBROADCAST_DELAY_MS[1]..REBROADCAST_DELAY_MS[2]
    ELSE {}

\* the rebroadcast branch of receive_messages with its guard left out
RelayFramesUnguarded(seen, self, packet) ==
    << encode_packet(rebroadcast_packet(packet)) >>

\* receive_messages, the rebroadcast branch: the frames it hands to transmit.
\* seen is seen_packets as process_received_packet left it.  The jitter line
\* reads the name random: unbound, it raises NameError, which the handler's
\* except clause reports, and transmit is not reached.
RelayFrames(seen, self, packet) ==
    IF should_rebroadcast(seen, self, packet)
    THEN IF "random" \in ModuleImports
         THEN << encode_packet(rebroadcast_packet(packet)) >>
         ELSE << >>
    ELSE << >>

\* what one run of a handler did: the bytes it was given, how they were
\* classified, whether the packet's id was in seen_packets on entry, whether the
\* run before it was this engine's first receipt of the same bytes (repeat) or
\* an invalid frame dropped by this engine (after_drop), the text returned,
\* whether it was appended to messages, the frames handed to transmit, the
\* frames that left the antenna, the dialog shown to the user, and the
\* entries get_mesh_nodes returned
Handled(op, n, data, kind, packet, seen_before, repeat, after_drop, message, appended, tx, radiated, shown, listed) ==
    [op |-> op, node |-> n, data |-> data, kind |-> kind, packet |-> packet,
     seen_before |-> seen_before, repeat |-> repeat, after_drop |-> after_drop,
     message |-> message, appended |-> appended, tx |-> tx, radiated |-> radiated,
     shown |-> shown, listed |-> listed]

\* the id counter after k allocations
RECURSIVE NthId(_, _)
NthId(counter, k) == IF k = 0 THEN counter ELSE NthId(next_packet_id(counter), k - 1)

\* packets engine n has built so far
SendsBy(n) ==
    CHOOSE k \in 0..(MaxSends + 1) : NthId(InitialCounter[n], k) = packet_id_counter[n]

\* send_message with a retry after a failed transmit
SendTransmitsRetry(encoded, radio) ==
    IF radio = "failed" THEN << encoded, encoded >> ELSE << encoded >>

\* send_message and meshtastic_chat: the calls of sx1262.transmit, in order
SendTransmits(encoded, radio) == << encoded >>

\* the frames a sequence of transmit calls puts on the channel
RECURSIVE Radiated(_, _)
Radiated(tx, radio) ==
    IF tx = << >> THEN << >>
    ELSE transmit(Head(tx), radio).radiated \o Radiated(Tail(tx), radio)

\* send_message: a non-empty message, broadcast as text; radio is what the
\* hardware does with the transmit
SendMessage(n, text, radio) ==
    /\ \E id \in {next_packet_id(packet_id_counter[n])} :
       \E packet \in {send_text_packet(node_id[n], id, text, BROADCAST_ADDR)} :
       \E encoded \in {encode_packet(packet)} :
       \E tx \in {SendTransmits(encoded, radio)} :
       \E radiated \in {Radiated(tx, radio)} :
           /\ packet_id_counter' = [packet_id_counter EXCEPT ![n] = id]
           /\ seen_packets' = [seen_packets EXCEPT ![n] = mark_seen(@, id, now)]
           /\ air' = air \cup {OnAir(radiated[i], n, 0, packet.hop_limit) :
                                  i \in 1..Len(radiated)}
           /\ last' = Handled("send", n, <<>>, "Sent", packet, FALSE, FALSE, FALSE,
                              NoMessage, FALSE, tx, radiated,
                              IF transmit(encoded, radio).raised
                              THEN "Send error" ELSE "Message Sent", {})
    /\ UNCHANGED <<now, nodes, messages, foreign, node_id>>

\* meshtastic_chat: the node info broadcast
MeshtasticChat(n, radio) ==
    /\ \E id \in {next_packet_id(packet_id_counter[n])} :
       \E packet \in {send_node_info_packet(node_id[n], id)} :
       \E encoded \in {encode_packet(packet)} :
       \E tx \in {SendTransmits(encoded, radio)} :
       \E radiated \in {Radiated(tx, radio)} :
           /\ packet_id_counter' = [packet_id_counter EXCEPT ![n] = id]
           /\ air' = air \cup {OnAir(radiated[i], n, 0, packet.hop_limit) :
                                  i \in 1..Len(radiated)}
           /\ last' = Handled("chat", n, <<>>, "Sent", packet, FALSE, FALSE, FALSE,
                              NoMessage, FALSE, tx, radiated,
                              IF transmit(encoded, radio).raised
                              THEN "Error" ELSE "Meshtastic Chat", {})
    /\ UNCHANGED <<now, seen_packets, nodes, messages, foreign, node_id>>

\* view_nodes
ViewNodes(n) ==
    /\ last' = Handled("view", n, <<>>, "None", NoPacket, FALSE, FALSE, FALSE,
                       NoMessage, FALSE, << >>, << >>, "Mesh Nodes",
                       get_mesh_nodes(nodes[n], now))
    /\ UNCHANGED <<now, packet_id_counter, seen_packets, nodes, messages, air,
                   foreign, node_id>>

\* receive_messages, a packet decoded: process_received_packet, the append to
\* messages, the rebroadcast branch
ProcessPacket(n, src, data, rssi, packet) ==
    \E seen_after \in {ProcessedSeen(seen_packets[n], packet, now)} :
    \E message_text \in {received_message(node_id[n], packet)} :
    \E tx \in {RelayFrames(seen_after, node_id[n], packet)} :
    \E radio \in IF tx = << >> THEN {"transmitted"} ELSE RadioOutcomes :
    \E radiated \in {Radiated(tx, radio)} :
        LET seen_before == packet.id \in DOMAIN seen_packets[n]
            repeat      == /\ last.op = "receive" /\ last.node = n
                           /\ last.kind = "Packet" /\ last.data = data
                           /\ ~last.seen_before
            after_drop  == /\ last.op = "receive" /\ last.node = n
                           /\ last.kind = "Invalid"
            appended    == ~message_text.isNone /\ message_text.text # <<>>
        IN  /\ seen_packets' = [seen_packets EXCEPT ![n] = seen_after]
            /\ nodes' = [nodes EXCEPT
                           ![n] = update_node(@, packet.from_node, packet, now)]
            /\ messages' =
                   IF appended
                   THEN [messages EXCEPT
                           ![n] = Append(@, [message |-> message_text.text,
                                             from |-> packet.from_node,
                                             rssi |-> rssi, time |-> now])]
                   ELSE messages
            /\ air' = air \cup
                   { OnAir(radiated[i], n, Min(src.depth + 1, src.h0 + 1), src.h0) :
                       i \in 1..Len(radiated) }
            /\ last' = Handled("receive", n, data, "Packet", packet, seen_before,
                               repeat, after_drop, message_text, appended, tx,
                               radiated, "Meshtastic Received", {})
            /\ UNCHANGED <<now, packet_id_counter, foreign, node_id>>

\* receive_messages: src is the frame the radio picked up, tail what follows it
\* in the chip's buffer, rssi what get_rssi() read
ReceiveMessages(n, src, tail, rssi) ==
    \E data \in {RxData(src, tail)} :
    \E dec \in {decode_packet(data)} :
        IF data = <<>>
        THEN /\ last' = Handled("receive", n, data, "NoData", NoPacket, FALSE,
                                FALSE, FALSE, NoMessage, FALSE, << >>, << >>,
                                "Receive", {})
             /\ UNCHANGED <<now, packet_id_counter, seen_packets, nodes, messages, air,
                            foreign, node_id>>
        ELSE IF dec.kind # "Ok"
        THEN /\ last' = Handled("receive", n, data, "Invalid", NoPacket, FALSE,
                                FALSE, FALSE, NoMessage, FALSE, << >>, << >>,
                                "Receive", {})
             /\ UNCHANGED <<now, packet_id_counter, seen_packets, nodes, messages, air,
                            foreign, node_id>>
        ELSE ProcessPacket(n, src, data, rssi, dec.packet)

\* time passes
Tick(d) ==
    /\ now + d <= MaxTime
    /\ now' = now + d
    /\ UNCHANGED <<packet_id_counter, seen_packets, nodes, messages, air, foreign,
                   node_id, last>>

NotHandled == Handled("init", "A", <<>>, "None", NoPacket, FALSE, FALSE, FALSE,
                      NoMessage, FALSE, << >>, << >>, "", {})

EmptyMap == [i \in {} |-> 0]

\* the time each cached id entered the cache it is in: an id that stays cached
\* keeps its time, an id that enters the cache in this step gets the step's time
Remembered ==
    first_seen' = [n \in Engines |->
                     [id \in DOMAIN seen_packets'[n] |->
                         IF id \in DOMAIN seen_packets[n] THEN first_seen[n][id]
                                                          ELSE now']]

\* get_meshtastic_lora_config: the settings on_load and select_mode apply
MeshTuning == [frequency |-> 868000000, spreading_factor |-> 11, tx_power |-> 22]

\* no show_menu yet
NoMenu == [n |-> "A", items |-> << >>, idx |-> -1]

\* on_load found the radio and both protocols, and the user chose Meshtastic
MeshMode ==
    /\ mode = [n \in Engines |-> "meshtastic"]
    /\ handlers = [n \in Engines |->
                      [sx1262 |-> TRUE, meshtastic |-> TRUE, reticulum |-> TRUE]]
    /\ tuning = [n \in Engines |-> MeshTuning]
    /\ menu = NoMenu

\* the engines after on_load, before anything was sent or received
Loaded ==
    /\ now = 0
    /\ packet_id_counter = InitialCounter
    /\ seen_packets = [n \in Engines |-> EmptyMap]
    /\ nodes = [n \in Engines |-> EmptyMap]
    /\ messages = [n \in Engines |-> << >>]
    /\ air = {}
    /\ node_id = ConfiguredNodeId
    /\ last = NotHandled
    /\ runs = 0
    /\ ui = [n \in Engines |-> "loop"]
    /\ in_flight = [n \in Engines |-> << >>]
    /\ first_seen = [n \in Engines |-> EmptyMap]

\* the engines after on_load, in Meshtastic mode
MeshInit == Loaded /\ MeshMode

CodecIdle ==
    /\ cStage = "idle"
    /\ cPacket = NoPacket
    /\ cFrame = << >>
    /\ cInput = << >>
    /\ cResult = [kind |-> "None", packet |-> NoPacket]

\* what an engine's radio may pick up: a frame on the channel, or nothing
Receivable == air \cup foreign \cup {Silence}

\* the user picks "Send Message" on engine n
UserSends(n, text, radio) ==
    /\ SendsBy(n) < MaxSends
    /\ SendMessage(n, text, radio)
    /\ UNCHANGED <<codecVars, uiVars, modeVars>>
    /\ Remembered

\* the user picks "Meshtastic Chat" on engine n
UserChats(n, radio) ==
    /\ SendsBy(n) < MaxSends
    /\ MeshtasticChat(n, radio)
    /\ UNCHANGED <<codecVars, uiVars, modeVars>>
    /\ Remembered

\* the user picks "View Mesh Nodes" on engine n
UserViews(n) ==
    /\ ViewNodes(n)
    /\ UNCHANGED <<codecVars, uiVars, modeVars>>
    /\ Remembered

\* the user picks "Receive Messages" on engine n
UserReceives(n, src, tail, rssi) ==
    /\ ReceiveMessages(n, src, tail, rssi)
    /\ Len(messages'[n]) <= MaxMessages
    /\ UNCHANGED <<codecVars, uiVars, modeVars>>
    /\ Remembered

Clock(d) == Tick(d) /\ UNCHANGED <<codecVars, uiVars, modeVars>> /\ Remembered

\* one more handler run of a bounded behaviour
Counted == runs < MaxRuns /\ runs' = runs + 1

Init ==
    /\ MeshInit
    /\ foreign \in ForeignScenarios
    /\ CodecIdle

Next ==
    \/ \E n \in Engines, text \in Texts, radio \in RadioOutcomes :
          Counted /\ UserSends(n, text, radio)
    \/ \E n \in Engines, radio \in RadioOutcomes : Counted /\ UserChats(n, radio)
    \/ \E n \in Engines : Counted /\ UserViews(n)
    \/ \E n \in Engines, src \in Receivable, rssi \in RssiValues :
          \E tail \in BufferTails(src.frame) :
              Counted /\ UserReceives(n, src, tail, rssi)
    \/ \E d \in TickSteps : Clock(d) /\ UNCHANGED runs

Spec == Init /\ [][Next]_vars

----------------------------------------------------------------------------
\* A flood: engines that keep receiving, with no bound on the handler runs

\* a neighbour originates a unicast to a fourth node
FloodScenario == { Originated(ForeignToOther) }

FloodInit ==
    /\ MeshInit
    /\ foreign = FloodScenario
    /\ CodecIdle

\* engine n runs receive_messages on whatever the radio returns
FloodReceives(n) ==
    \E src \in Receivable, rssi \in RssiValues :
        \E tail \in BufferTails(src.frame) :
            UserReceives(n, src, tail, rssi) /\ UNCHANGED runs

FloodNext ==
    \/ \E n \in Engines : FloodReceives(n)
    \/ \E d \in TickSteps : Clock(d) /\ UNCHANGED runs

\* every engine keeps being given the chance to receive
FloodSpec ==
    FloodInit /\ [][FloodNext]_vars /\ \A n \in Engines : WF_vars(FloodReceives(n))

----------------------------------------------------------------------------
\* The handlers step by step: a callback is entered, its radio call is in
\* flight, the call returns and the callback runs to its end

\* the callbacks that call the radio
RadioHandlers == {"send_message", "receive_messages", "meshtastic_chat"}

\* the SX1262 call a callback makes first
RadioCall(h) == IF h = "receive_messages" THEN "receive" ELSE "transmit"

\* callbacks entered whatever the UI thread is doing
CanInvokeAnytime(running) == TRUE

\* UIManager.run: one urwid MainLoop per device; a button's click signal calls
\* the callback from the loop, which takes the next input when it has returned
CanInvoke(running) == running = "loop"

\* the user picks menu item h on engine n: the callback runs up to its radio call
UserInvokes(n, h) ==
    /\ CanInvoke(ui[n])
    /\ h \in {"send_message", "meshtastic_chat"} => SendsBy(n) < MaxSends
    /\ ui' = [ui EXCEPT ![n] = h]
    /\ in_flight' = [in_flight EXCEPT ![n] = Append(@, RadioCall(h))]
    /\ UNCHANGED <<now, packet_id_counter, seen_packets, nodes, messages, air,
                   foreign, node_id, last, first_seen, codecVars, modeVars>>

\* the radio call of the callback running on engine n has returned
Returned(n, h) ==
    /\ ui[n] = h
    /\ in_flight[n] # << >>
    /\ ui' = [ui EXCEPT ![n] = "loop"]
    /\ in_flight' = [in_flight EXCEPT ![n] = Tail(@)]
    /\ UNCHANGED <<runs, codecVars, modeVars>>

SendReturns(n, text, radio) ==
    Returned(n, "send_message") /\ SendMessage(n, text, radio) /\ Remembered

ChatReturns(n, radio) ==
    Returned(n, "meshtastic_chat") /\ MeshtasticChat(n, radio) /\ Remembered

ReceiveReturns(n, src, tail, rssi) ==
    /\ Returned(n, "receive_messages")
    /\ ReceiveMessages(n, src, tail, rssi)
    /\ Len(messages'[n]) <= MaxMessages
    /\ Remembered

\* a neighbour's broadcast text is on the channel
RadioScenario == { Originated(ForeignText) }

RadioInit ==
    /\ MeshInit
    /\ foreign = RadioScenario
    /\ CodecIdle

RadioNext ==
    \/ \E n \in Engines, h \in RadioHandlers : Counted /\ UserInvokes(n, h)
    \/ \E n \in Engines, text \in Texts, radio \in RadioOutcomes :
          SendReturns(n, text, radio)
    \/ \E n \in Engines, radio \in RadioOutcomes : ChatReturns(n, radio)
    \/ \E n \in Engines, src \in Receivable, rssi \in RssiValues :
          \E tail \in BufferTails(src.frame) : ReceiveReturns(n, src, tail, rssi)
    \/ \E d \in TickSteps : Clock(d) /\ UNCHANGED runs

RadioSpec == RadioInit /\ [][RadioNext]_vars

----------------------------------------------------------------------------
\* Engines as MeshtasticProtocol.__init__ may leave them, building packets

\* random.randint(0x10000000, 0xFFFFFFFF): both ends of the range
GeneratedNodeIds == { Wide(4096, 0), Wide(65535, 65535) }

\* config 'node_id': any integer of the YAML file, here one that fits 32 bits
\* and 2^32, which does not
ConfiguredNodeIds == { Wide(4096, 1), Wide(65536, 0) }

\* random.randint(0, 0xFFFFFFFF): both ends, values next to them and values
\* around a 16-bit carry
GeneratedCounters ==
    { Wide(0, 0), Wide(0, 65534), Wide(0, 65535), Wide(65535, 65534), Wide(65535, 65535) }

\* what the user may type: the short text and a text of LongTextLen letters "a"
BootTexts == Texts \cup { [i \in 1..LongTextLen |-> 97] }

BootInit ==
    /\ now = 0
    /\ node_id \in { [ConfiguredNodeId EXCEPT !["A"] = v] :
                        v \in GeneratedNodeIds \cup ConfiguredNodeIds }
    /\ packet_id_counter \in { [InitialCounter EXCEPT !["A"] = c] :
                                  c \in GeneratedCounters }
    /\ seen_packets = [n \in Engines |-> EmptyMap]
    /\ nodes = [n \in Engines |-> EmptyMap]
    /\ messages = [n \in Engines |-> << >>]
    /\ air = {}
    /\ foreign = {}
    /\ last = NotHandled
    /\ runs = 0
    /\ ui = [n \in Engines |-> "loop"]
    /\ in_flight = [n \in Engines |-> << >>]
    /\ first_seen = [n \in Engines |-> EmptyMap]
    /\ MeshMode
    /\ CodecIdle

\* one more packet built in a behaviour of the boot harness
Allocated == runs < MaxAllocations /\ runs' = runs + 1

BootSends(n, text, radio) ==
    /\ SendMessage(n, text, radio)
    /\ UNCHANGED <<codecVars, uiVars, modeVars>>
    /\ Remembered

BootChats(n, radio) ==
    /\ MeshtasticChat(n, radio)
    /\ UNCHANGED <<codecVars, uiVars, modeVars>>
    /\ Remembered

BootNext ==
    \/ \E n \in Engines, text \in BootTexts, radio \in RadioOutcomes :
          Allocated /\ BootSends(n, text, radio)
    \/ \E n \in Engines, radio \in RadioOutcomes : Allocated /\ BootChats(n, radio)

BootSpec == BootInit /\ [][BootNext]_vars

----------------------------------------------------------------------------
\* Select Mode: the modes on_load left to choose from, and the user's choice

\* SX1262.__init__: the settings of a radio nothing has configured
DriverTuning == [frequency |-> 868000000, spreading_factor |-> 7, tx_power |-> 22]

\* select_mode, idx == 0: the settings restored for direct LoRa
DirectTuning == [frequency |-> 433920000, spreading_factor |-> 7, tx_power |-> 22]

\* what on_load may leave: self.sx1262, self.meshtastic (only created on an
\* initialised radio) and RETICULUM_AVAILABLE
OnLoadOutcomes ==
    { h \in [sx1262 : BOOLEAN, meshtastic : BOOLEAN, reticulum : BOOLEAN] :
          h.meshtastic => h.sx1262 }

\* the radio settings after on_load
LoadedTuning(h) == IF h.meshtastic THEN MeshTuning ELSE DriverTuning

\* the items select_mode lists
modes(h) ==
    <<"Direct LoRa (Point-to-Point)">>
        \o (IF h.meshtastic THEN <<"Meshtastic Mesh">> ELSE << >>)
        \o (IF h.reticulum THEN <<"Reticulum Network">> ELSE << >>)

\* the mode a menu item names
ModeNamed(item) ==
    CASE item = "Direct LoRa (Point-to-Point)" -> "direct"
      [] item = "Meshtastic Mesh" -> "meshtastic"
      [] item = "Reticulum Network" -> "reticulum"

\* show_menu: the index of the item the user selected, -1 when they cancel
MenuChoices(items) == {-1} \cup (0..(Len(items) - 1))

\* select_mode after show_menu returned idx: the mode and the radio settings
select_mode(m, h, t, idx) ==
    IF idx = 0
    THEN [mode |-> "direct", tuning |-> IF h.sx1262 THEN DirectTuning ELSE t]
    ELSE IF idx = 1 /\ h.meshtastic
    THEN [mode |-> "meshtastic",
          tuning |-> IF h.sx1262
                     THEN [t EXCEPT !.frequency = MeshTuning.frequency,
                                    !.spreading_factor = MeshTuning.spreading_factor]
                     ELSE t]
    ELSE IF idx = 2 /\ h.reticulum
    THEN [mode |-> "reticulum", tuning |-> t]
    ELSE [mode |-> m, tuning |-> t]

\* the user picks "Select Mode" on engine n and then item idx of the menu
SelectMode(n, idx) ==
    /\ \E r \in {select_mode(mode[n], handlers[n], tuning[n], idx)} :
          /\ mode' = [mode EXCEPT ![n] = r.mode]
          /\ tuning' = [tuning EXCEPT ![n] = r.tuning]
    /\ menu' = [n |-> n, items |-> modes(handlers[n]), idx |-> idx]
    /\ UNCHANGED <<now, packet_id_counter, seen_packets, nodes, messages, air, foreign,
                   node_id, last, runs, first_seen, handlers, uiVars, codecVars>>

\* the engines after __init__ and on_load: mode "direct"
ModeInit ==
    /\ Loaded
    /\ foreign = {}
    /\ CodecIdle
    /\ mode = [n \in Engines |-> "direct"]
    /\ handlers \in [Engines -> OnLoadOutcomes]
    /\ tuning = [n \in Engines |-> LoadedTuning(handlers[n])]
    /\ menu = NoMenu

ModeNext == \E n \in Engines : \E idx \in MenuChoices(modes(handlers[n])) : SelectMode(n, idx)

ModeSpec == ModeInit /\ [][ModeNext]_vars

----------------------------------------------------------------------------
\* Codec harness: encode_packet and decode_packet applied to drawn inputs

LongPayload == [i \in 1..MaxPayloadLen |-> (7 * i) % 256]

CodecPayloads == { << >>, <<104, 101, 108, 108, 111>>, <<255, 128>>, LongPayload }

CodecPackets ==
    { MeshPacket(to, Wide(4096, 2), id, hop, ack, port, payload) :
        to \in {Wide(4096, 1), BROADCAST_ADDR}, id \in {Wide(258, 896), U32Max},
        hop \in 0..7, ack \in BOOLEAN, port \in {0, TEXT_MESSAGE_APP, 255},
        payload \in CodecPayloads \ {LongPayload} }
    \cup
    { MeshPacket(BROADCAST_ADDR, Wide(0, 0), Wide(0, 0), hop, TRUE, NODEINFO_APP,
                 LongPayload) : hop \in {0, 5} }

\* arbitrary byte strings: all-zero strings, strings ending in a wrong byte, and
\* every prefix of a valid frame
RawInputs ==
    { Zeros(k) : k \in 0..MaxRawLen }
    \cup { Append(Zeros(k), 1) : k \in 0..(MaxRawLen - 1) }
    \cup { Slice(encode_packet(ForeignText), 0, k) :
             k \in 0..Len(encode_packet(ForeignText)) }

NoResult == [kind |-> "None", packet |-> NoPacket]

CodecEncode ==
    /\ cStage = "composed"
    /\ cFrame' = encode_packet(cPacket)
    /\ cStage' = "encoded"
    /\ UNCHANGED <<cPacket, cInput, cResult, meshVars>>

\* the frame arrives as it was sent
CodecDecode ==
    /\ cStage = "encoded"
    /\ cInput' = cFrame
    /\ cResult' = decode_packet(cFrame)
    /\ cStage' = "decoded"
    /\ UNCHANGED <<cPacket, cFrame, meshVars>>

\* the frame arrives with bit i flipped
CodecDecodeFlipped(i) ==
    /\ cStage = "encoded"
    /\ cInput' = FlipBit(cFrame, i)
    /\ cResult' = decode_packet(FlipBit(cFrame, i))
    /\ cStage' = "flipped"
    /\ UNCHANGED <<cPacket, cFrame, meshVars>>

\* arbitrary bytes arrive
CodecDecodeRaw ==
    /\ cStage = "raw"
    /\ cResult' = decode_packet(cInput)
    /\ cStage' = "rawdecoded"
    /\ UNCHANGED <<cPacket, cFrame, cInput, meshVars>>

\* the packet is relayed: rebroadcast_packet, then encode_packet of its result
CodecRelay ==
    /\ cStage = "composed"
    /\ cResult' = [kind |-> "Relayed", packet |-> rebroadcast_packet(cPacket)]
    /\ cFrame' = encode_packet(rebroadcast_packet(cPacket))
    /\ cStage' = "relayed"
    /\ UNCHANGED <<cPacket, cInput, meshVars>>

CodecInit ==
    /\ MeshInit
    /\ foreign = {}
    /\ cFrame = << >>
    /\ cResult = NoResult
    /\ \/ cStage = "composed" /\ cPacket \in CodecPackets /\ cInput = << >>
       \/ cStage = "raw" /\ cPacket = NoPacket /\ cInput \in RawInputs

CodecNext ==
    \/ CodecEncode
    \/ CodecDecode
    \/ \E i \in 0..(8 * Len(cFrame) - 1) : CodecDecodeFlipped(i)
    \/ CodecDecodeRaw
    \/ CodecRelay

CodecSpec == CodecInit /\ [][CodecNext]_vars

----------------------------------------------------------------------------
\* Claims about the codec

\* C7: round trip.  A packet with fields in their wire ranges and a payload of at
\* most 255 bytes, encoded and then decoded, comes back equal in to, from, id,
\* hop_limit, want_ack, port and payload.
C7_RoundTrip ==
    (cStage = "decoded" /\ Len(cPacket.payload) <= 255) =>
        /\ cResult.kind = "Ok"
        /\ cResult.packet.to = cPacket.to
        /\ cResult.packet.from_node = cPacket.from_node
        /\ cResult.packet.id = cPacket.id
        /\ cResult.packet.hop_limit = cPacket.hop_limit
        /\ cResult.packet.want_ack = cPacket.want_ack
        /\ cResult.packet.port_num = cPacket.port_num
        /\ cResult.packet.payload = cPacket.payload

\* a 255-byte payload with hop_limit 5 and want_ack set has made the round trip
C7_Witness ==
    /\ cStage = "decoded"
    /\ Len(cPacket.payload) = 255
    /\ cPacket.hop_limit = 5
    /\ cResult.kind = "Ok"

\* C8: checksum sensitivity.  A frame produced by encode_packet with any single
\* bit flipped (header, length fields, payload or checksum byte) is rejected by
\* decode_packet at the checksum comparison; no packet is returned.
C8_ChecksumSensitivity ==
    cStage = "flipped" =>
        /\ cResult.kind = "ChecksumMismatch"
        /\ cResult.packet = NoPacket

\* a flip of the top bit of the low byte of the 2-byte length field was rejected
C8_Witness ==
    /\ cStage = "flipped"
    /\ cInput = FlipBit(cFrame, 8 * 15 + 7)
    /\ cResult.kind = "ChecksumMismatch"

\* C9: decode_packet is total and typed.  Every input yields a packet or a
\* failure; every input shorter than the minimum frame of 16 bytes (15 bytes of
\* fixed header plus the checksum) fails as TooShort; every other input whose
\* trailing byte differs from the sum modulo 256 of the preceding bytes fails as
\* ChecksumMismatch.
C9_DecodeTotalTyped ==
    cStage \in {"decoded", "flipped", "rawdecoded"} =>
        /\ cResult.kind \in {"Ok", "TooShort", "ChecksumMismatch"}
        /\ Len(cInput) < 16 => cResult.kind = "TooShort"
        /\ ( /\ Len(cInput) >= 16
             /\ cInput[Len(cInput)] # SumBytes(SubSeq(cInput, 1, Len(cInput) - 1)) % 256 )
           => cResult.kind = "ChecksumMismatch"

----------------------------------------------------------------------------
\* Claims about the receive path and the mesh

\* the last handler run was receive_messages on a packet that decoded
ReceivedPacket == last.op = "receive" /\ last.kind = "Packet"

\* the last handler run was receive_messages and it handed a frame to transmit
RelayProduced == last.op = "receive" /\ last.tx # << >>

\* a packet with a given destination, id and hop_limit
Probe(to, id, hop_limit) ==
    MeshPacket(to, Wide(4096, 3), id, hop_limit, FALSE, TEXT_MESSAGE_APP, <<104, 105>>)

\* a node id that is neither an engine's nor the broadcast address
Elsewhere == Wide(4096, 9)

HopLimits == 0..7

RECURSIVE RelayCount(_, _)
\* relays of packet along one path of engines that have not met its id and are
\* not its destination, each handing the packet it relays to the next; counted
\* up to fuel
RelayCount(packet, fuel) ==
    IF fuel = 0 THEN 0
    ELSE IF should_rebroadcast(EmptyMap, Elsewhere, packet)
         THEN 1 + RelayCount(rebroadcast_packet(packet), fuel - 1)
         ELSE 0

\* C1: a node that receives, for the first time, a valid packet with hop_limit
\* h > 0 whose to is not its own id transmits a rebroadcast frame carrying
\* hop_limit h - 1, and a broadcast text is delivered as well.
C1_FirstReceiptRelays ==
    ( /\ ReceivedPacket
      /\ ~last.seen_before
      /\ last.packet.hop_limit > 0
      /\ last.packet.to # node_id[last.node] )
    => /\ last.tx = << encode_packet(rebroadcast_packet(last.packet)) >>
       /\ ( /\ last.packet.to = BROADCAST_ADDR
            /\ last.packet.port_num = TEXT_MESSAGE_APP
            /\ Utf8Decode(last.packet.payload).ok )
          => ~last.message.isNone

\* C2: the same encoded packet delivered a second time to one engine, its id
\* not seen before the first delivery, is dropped as a duplicate: no message is
\* returned, nothing is appended to the message list, nothing is rebroadcast.
C2_DuplicateDropped ==
    (ReceivedPacket /\ last.repeat) =>
        /\ last.message.isNone
        /\ ~last.appended
        /\ last.tx = << >>

\* C3: a packet originated with hop_limit h in 0..7 is rebroadcast at most h
\* times along any single relay path, and no engine rebroadcasts a packet it
\* received with hop_limit 0.  Stated of the frames on the channel, of the
\* handler run, and of the packet just received had it carried each hop_limit.
C3_HopLimitBoundsRelays ==
    /\ \A e \in air : e.depth <= e.h0
    /\ (ReceivedPacket /\ last.packet.hop_limit = 0) => last.tx = << >>
    /\ ReceivedPacket =>
          /\ \A h \in HopLimits :
                RelayCount([last.packet EXCEPT !.hop_limit = h], h + 1) <= h
          /\ \A n \in Engines :
                \A seen \in {seen_packets[n], EmptyMap} :
                    ~should_rebroadcast(seen, node_id[n],
                                        [last.packet EXCEPT !.hop_limit = 0])

\* an engine has received a broadcast that arrived with hop_limit 0 and has not
\* transmitted
C3_Witness ==
    /\ ReceivedPacket
    /\ last.packet.to = BROADCAST_ADDR
    /\ last.packet.hop_limit = 0
    /\ ~last.seen_before
    /\ last.tx = << >>

\* C4: a packet whose to equals the receiving engine's own node_id is never
\* rebroadcast by that engine, for every hop_limit in 0..7 and whether or not
\* its id has been seen before (the engine's cache, and the empty cache).
C4_OwnPacketsNotRelayed ==
    (ReceivedPacket /\ last.packet.to = node_id[last.node]) =>
        /\ last.tx = << >>
        /\ \A h \in HopLimits, seen \in {seen_packets[last.node], EmptyMap} :
              ~should_rebroadcast(seen, node_id[last.node],
                                  [last.packet EXCEPT !.hop_limit = h])

\* engine A has received, for the first time, the unicast addressed to it, has
\* delivered its text and has not transmitted
C4_Witness ==
    /\ ReceivedPacket
    /\ last.node = "A"
    /\ last.packet.to = node_id["A"]
    /\ last.packet.hop_limit = 3
    /\ ~last.seen_before
    /\ last.appended
    /\ last.tx = << >>

\* C5: every engine relays a given packet id at most once while the id is in
\* its seen-packet cache, so one originated packet causes at most N - 1
\* rebroadcast transmissions in a mesh of N engines, the originator included,
\* whatever the order in which copies arrive.
C5_RelayAtMostOnce ==
    /\ (ReceivedPacket /\ last.seen_before) => last.tx = << >>
    /\ \A e \in air :
          e.depth = 0 =>
              Cardinality({r \in air : /\ r.depth > 0
                                       /\ decode_packet(r.frame).packet.id =
                                              decode_packet(e.frame).packet.id})
                  <= Cardinality(Engines) - 1
    /\ \A n \in Engines :
          \A id \in DOMAIN seen_packets[n], h \in HopLimits,
             to \in {BROADCAST_ADDR, Elsewhere, node_id[n]} :
             ~should_rebroadcast(seen_packets[n], node_id[n], Probe(to, id, h))

\* a copy of a broadcast with hop_limit 3 has arrived at an engine whose cache
\* holds its id, and the engine has not transmitted
C5_Witness ==
    /\ ReceivedPacket
    /\ last.seen_before
    /\ last.packet.to = BROADCAST_ADDR
    /\ last.packet.hop_limit = 3
    /\ last.packet.id \in DOMAIN seen_packets[last.node]
    /\ last.tx = << >>

\* C6: every flood terminates.  With every engine given the chance to receive
\* again and again, the mesh reaches a state from which no receive ever hands a
\* rebroadcast to the radio again.
C6_FloodTerminates == <>[](~RelayProduced)

\* both engines have received the unicast for a fourth node, which arrived with
\* hop_limit 1, and the channel holds no frame but the neighbours'
C6_Witness ==
    /\ \A n \in Engines : ForeignToOther.id \in DOMAIN seen_packets[n]
    /\ ReceivedPacket
    /\ last.packet.hop_limit = 1
    /\ air = {}

\* C10: inbound bytes that fail to decode are dropped with no further action:
\* seen_packets, the node table, the packet-id counter and the message list are
\* unchanged and nothing is transmitted; a valid frame that arrives next is
\* processed as usual.
C10_DecodeFailureDropped ==
    [][ /\ ( /\ runs' = runs + 1
             /\ last'.op = "receive"
             /\ last'.data # << >>
             /\ \/ Len(last'.data) < 17
                \/ last'.data[Len(last'.data)] #
                       SumBytes(SubSeq(last'.data, 1, Len(last'.data) - 1)) % 256 )
           => /\ UNCHANGED <<seen_packets, nodes, packet_id_counter, messages, air>>
              /\ last'.tx = << >>
              /\ last'.message.isNone
        /\ ( /\ runs' = runs + 1
             /\ last.op = "receive"
             /\ last.kind = "Invalid"
             /\ last'.op = "receive"
             /\ last'.node = last.node
             /\ decode_packet(last'.data).kind = "Ok" )
           => /\ last'.kind = "Packet"
              /\ last'.after_drop
              /\ last'.packet.id \in DOMAIN seen_packets'[last'.node]
              /\ last'.packet.from_node \in DOMAIN nodes'[last'.node]
              /\ last'.message = received_message(node_id[last'.node], last'.packet)
      ]_vars

\* an engine dropped a frame with one bit flipped, its state untouched, and then
\* received the intact frame and delivered its text
C10_Witness ==
    /\ ReceivedPacket
    /\ last.after_drop
    /\ ~last.seen_before
    /\ last.appended
    /\ Len(messages[last.node]) = 1
    /\ DOMAIN seen_packets[last.node] = {last.packet.id}

----------------------------------------------------------------------------
\* Claims about the send operations and the radio

\* C11: every operation that builds an outbound packet (send_text, run by
\* send_message, and send_node_info, run by meshtastic_chat) returns a packet
\* whose from field is the engine's node_id and whose id is in the engine's
\* seen-packet cache when the operation returns.
C11_SentPacketIsSeen ==
    last.op \in {"send", "chat"} =>
        /\ last.packet.from_node = node_id[last.node]
        /\ last.packet.id \in DOMAIN seen_packets[last.node]

\* the last handler run was engine n receiving a frame it transmitted itself as
\* the originator
OwnEcho ==
    /\ ReceivedPacket
    /\ last.packet.from_node = node_id[last.node]
    /\ \E e \in air :
          /\ e.by = last.node
          /\ e.depth = 0
          /\ SubSeq(last.data, 1, Len(e.frame)) = e.frame

\* C12: an engine that sent a packet and receives it back while the packet's id
\* is still in its seen-packet cache does not rebroadcast it: the handler hands
\* nothing to transmit, and should_rebroadcast is False for the packet whatever
\* hop_limit the copy carries.
C12_OwnPacketNotRebroadcast ==
    (OwnEcho /\ last.seen_before) =>
        /\ last.tx = << >>
        /\ \A e \in air : e.by = last.node => e.depth = 0
        /\ \A h \in HopLimits :
              ~should_rebroadcast(seen_packets[last.node], node_id[last.node],
                                  [last.packet EXCEPT !.hop_limit = h])

\* an engine received its own broadcast text, hop_limit 3, its id still cached
C12_Witness ==
    /\ OwnEcho
    /\ last.seen_before
    /\ last.packet.id \in DOMAIN seen_packets[last.node]
    /\ last.packet.hop_limit = 3
    /\ last.packet.to = BROADCAST_ADDR

\* C13: an inbound packet whose id the engine recorded itself when it sent the
\* packet (its own broadcast text, overheard) is dropped as a duplicate:
\* process_received_packet returns no message and nothing is appended to
\* messages.
C13_OwnTextDroppedAsDuplicate ==
    (OwnEcho /\ last.seen_before) => (last.message.isNone /\ ~last.appended)

\* C14: get_mesh_nodes called at time now returns exactly the entries of the
\* node table with now - last_seen <= 600 seconds: an entry is still returned at
\* the instant now - last_seen = 600 and is left out once it is older.
C14_NodesWithinStaleTimeout ==
    last.op = "view" =>
        last.listed = { nodes[last.node][i] :
                          i \in {j \in DOMAIN nodes[last.node] :
                                    now - nodes[last.node][j].last_seen <= 600} }

C16_FailedTransmitIsReported ==
    last.op = "send" =>
        /\ last.shown = "Message Sent" => last.radiated = << encode_packet(last.packet) >>
        /\ last.radiated = << >> => last.shown = "Send error"

\* C17: at no instant are two radio operations in flight on an engine's
\* SX1262 (a transmit with a receive, or two of either): the radio calls of
\* send_message, receive_messages and meshtastic_chat are serialized, and a
\* call is in flight only while its callback is running.
C17_RadioCallsSerialized ==
    \A n \in Engines :
        /\ Len(in_flight[n]) <= 1
        /\ in_flight[n] # << >> =>
              /\ ui[n] \in RadioHandlers
              /\ in_flight[n] = << RadioCall(ui[n]) >>

\* one engine is in receive_messages, its receive in flight, while the other
\* is in send_message, its transmit in flight
C17_Witness ==
    /\ ui["A"] = "receive_messages"
    /\ in_flight["A"] = << "receive" >>
    /\ ui["B"] = "send_message"
    /\ in_flight["B"] = << "transmit" >>

----------------------------------------------------------------------------
\* Claims about delivery, relayed packets and the seen-packet cache

\* port numbers a received packet may carry
Ports == {0, TEXT_MESSAGE_APP, POSITION_APP, NODEINFO_APP, 255}

\* C18: process_received_packet returns a message exactly when the packet's to
\* field is the engine's node_id or the broadcast address and its port is
\* TEXT_MESSAGE_APP with a payload that decodes as UTF-8, and the message is the
\* decoded payload; a packet addressed to another node yields no message
\* whatever its port.
C18_DeliveredIffForUsAndText ==
    ReceivedPacket =>
        LET self     == node_id[last.node]
            p        == last.packet
            for_us   == p.to = self \/ p.to = BROADCAST_ADDR
            decoded  == Utf8Decode(p.payload)
            accepted == for_us /\ p.port_num = TEXT_MESSAGE_APP /\ decoded.ok
        IN  /\ ~last.message.isNone <=> accepted
            /\ accepted => last.message.text = decoded.text
            /\ \A port \in Ports :
                  received_message(self, [p EXCEPT !.to = Elsewhere,
                                                   !.port_num = port]).isNone

\* an engine received a text addressed to it alone and the text was returned
C18_Witness ==
    /\ ReceivedPacket
    /\ last.packet.to = node_id[last.node]
    /\ last.packet.port_num = TEXT_MESSAGE_APP
    /\ ~last.message.isNone
    /\ SubSeq(last.message.text, 1, 2) = <<121, 111>>

\* C19: the packet rebroadcast_packet builds from a packet p with hop_limit >= 1
\* equals p in to, from, id, want_ack, port and payload and has hop_limit
\* p.hop_limit - 1; the frame encoded from it equals the frame of p in every
\* byte but the flags byte, whose 3-bit hop field is p.hop_limit - 1 and whose
\* other bits are those of p, and the checksum; p itself is left as it was.
C19_RelayChangesOnlyHopLimit ==
    [][(cStage = "composed" /\ cStage' = "relayed" /\ cPacket.hop_limit >= 1) =>
          LET p  == cPacket
              r  == cResult'.packet
              f  == cFrame'
              f0 == encode_packet(p)
          IN  /\ cPacket' = p
              /\ r.to = p.to /\ r.from_node = p.from_node /\ r.id = p.id
              /\ r.want_ack = p.want_ack /\ r.port_num = p.port_num
              /\ r.payload = p.payload
              /\ r.hop_limit = p.hop_limit - 1
              /\ Len(f) = Len(f0)
              /\ \A i \in 1..(Len(f) - 1) : i # 13 => f[i] = f0[i]
              /\ f[13] % 8 = p.hop_limit - 1
              /\ f[13] \div 8 = f0[13] \div 8
              /\ f[Len(f)] = SumRange(f, 1, Len(f) - 1) % 256]_vars

\* a packet with hop_limit 1 and want_ack set was relayed: hop_limit 0 in the
\* packet, flags byte 8 on the wire
C19_Witness ==
    /\ cStage = "relayed"
    /\ cPacket.hop_limit = 1
    /\ cPacket.want_ack
    /\ cResult.packet.hop_limit = 0
    /\ cResult.packet.want_ack
    /\ cFrame[13] = 8

\* C20: once an id is in an engine's seen-packet cache, its first-seen
\* timestamp does not change for as long as the entry is there: recording an id
\* that is already present (a duplicate reception, or a send whose id is
\* cached) leaves the entry as it is.
C20_FirstSeenTimestampKept ==
    [][\A n \in Engines :
          \A id \in DOMAIN seen_packets[n] \cap DOMAIN seen_packets'[n] :
              seen_packets'[n][id] = seen_packets[n][id]]_vars

----------------------------------------------------------------------------
\* Claims about the node table, accepted frames and packet ids

\* C22: after an engine has processed a decoded packet from sender s at time
\* now, a duplicate included, its node table has an entry for s with
\* last_seen = now and with the rssi the radio reported for that reception.
C22_NodeObservedWithRadioValues ==
    ReceivedPacket =>
        LET table == nodes[last.node]
            s     == last.packet.from_node
        IN  /\ s \in DOMAIN table
            /\ table[s].last_seen = now
            /\ table[s].rssi \in RssiValues

\* C23: every frame decode_packet accepts is well-formed: its length is
\* 17 + L + 1 bytes, L being the value of the 2-byte payload-length field, and
\* the payload returned is the L bytes after the length field.
C23_AcceptedFrameWellFormed ==
    (cStage \in {"decoded", "flipped", "rawdecoded"} /\ cResult.kind = "Ok") =>
        LET L == UnLE16(Slice(cInput, 15, 17))
        IN  /\ Len(cInput) = 17 + L + 1
            /\ cResult.packet.payload = SubSeq(cInput, 18, 17 + L)

\* the packet just processed is one the node has to relay: first receipt,
\* hop_limit above zero, not addressed to the node
RelayDue ==
    /\ ReceivedPacket
    /\ ~last.seen_before
    /\ last.packet.hop_limit > 0
    /\ last.packet.to # node_id[last.node]

\* C25: every rebroadcast transmission is preceded by a jitter delay drawn from
\* the window [100 ms, 200 ms], bounds included: no relay frame is handed to
\* transmit without a delay having been drawn, and when a relay is due every
\* value of the window can be drawn.
C25_RelayAfterJitterInWindow ==
    /\ RelayProduced => JitterDelays # {}
    /\ RelayDue => JitterDelays = 100..200

\* C26: while a rebroadcast is pending (a relay is due for the packet the
\* engine just processed and the relay frame has not been transmitted yet) the
\* engine keeps listening: its radio is in a receive, so a frame arriving
\* meanwhile is received and processed.
C26_ListeningWhileRelayPending ==
    (RelayDue /\ ~\E e \in air : e.by = last.node /\ e.depth >= 1) =>
        in_flight[last.node] = << "receive" >>

\* x + 1 modulo 2^32
PlusOneMod32(x) ==
    IF x = Wide(65535, 65535) THEN Wide(0, 0)
    ELSE IF x[2] = 65535 THEN Wide(x[1] + 1, 0) ELSE Wide(x[1], x[2] + 1)

\* C24: the packet ids an engine allocates lie in 0..2^32-1 and each newly
\* allocated id is the one allocated before plus 1 modulo 2^32 (after 2^32-1
\* comes 0); the ids of consecutive allocations are therefore all different.
C24_IdsCountUpModulo ==
    [][\A n \in Engines :
          /\ InU32(packet_id_counter[n]) /\ packet_id_counter[n][2] \in 0..65535
          /\ packet_id_counter'[n] # packet_id_counter[n] =>
                /\ packet_id_counter'[n] = PlusOneMod32(packet_id_counter[n])
                /\ last'.node = n /\ last'.packet.id = packet_id_counter'[n]
          /\ \A j, k \in 0..IdWindow :
                j # k => NthId(packet_id_counter[n], j) # NthId(packet_id_counter[n], k)]_vars

\* an engine allocated 0xFFFFFFFF, transmitted the packet, and allocated 0 next
C24_Witness ==
    /\ last.op \in {"send", "chat"}
    /\ last.packet.id = Wide(0, 0)
    /\ packet_id_counter[last.node] = Wide(0, 0)
    /\ \E e \in air :
          /\ e.by = last.node
          /\ Len(e.frame) >= 12
          /\ SubSeq(e.frame, 9, 12) = <<255, 255, 255, 255>>

----------------------------------------------------------------------------
\* Claims about the packets handed to the radio, node ids and the mode

\* C27: every MeshPacket an engine builds or hands to the radio (send_text for
\* any text, send_node_info, rebroadcast_packet of a decoded packet) has a
\* payload of at most 255 bytes.
C27_PayloadAtMost255 ==
    /\ last.op \in {"send", "chat"} => Len(last.packet.payload) <= 255
    /\ ReceivedPacket => Len(rebroadcast_packet(last.packet).payload) <= 255

\* C28: no empty frame is handed to the radio: when encode_packet fails and
\* returns empty bytes, the send is aborted and reported as failed.
C28_NoEmptyFrameTransmitted ==
    last.op \in {"send", "chat"} =>
        /\ \A i \in 1..Len(last.tx) : last.tx[i] # << >>
        /\ encode_packet(last.packet) = << >> =>
              (last.tx = << >> /\ last.shown \in {"Send error", "Error"})

\* C29: an engine's node_id, generated or configured, is never the broadcast
\* address 0xFFFFFFFF, so that a broadcast with hops left, not seen before, is
\* never taken for a packet addressed to the engine and kept from relaying.
C29_NodeIdNotBroadcast ==
    \A n \in Engines :
        /\ node_id[n] # Wide(65535, 65535)
        /\ should_rebroadcast(EmptyMap, node_id[n], Probe(BROADCAST_ADDR, Wide(0, 1), 3))

\* C21: a step that processes a decoded inbound packet at time t leaves in the
\* engine's cache exactly the ids that were cached (the packet's own id
\* included) and were first cached no more than the TTL of 300 s before t: none
\* older remains, none younger is removed
C21_CacheHoldsIdsWithinTTL ==
    [][(runs' # runs /\ last'.op = "receive" /\ last'.kind = "Packet") =>
          LET n == last'.node
              cached == DOMAIN seen_packets[n] \cup {last'.packet.id}
              since(id) == IF id \in DOMAIN first_seen[n] THEN first_seen[n][id]
                                                          ELSE now'
          IN  DOMAIN seen_packets'[n] =
                  { id \in cached : now' - since(id) <= PACKET_TIMEOUT_MS \div 1000 }]_vars

\* C30: after select_mode in which the user chose a listed item, the engine's
\* mode is the mode that item names, whichever handlers on_load left
C30_ModeIsTheOneChosen ==
    menu.idx >= 0 => mode[menu.n] = ModeNamed(menu.items[menu.idx + 1])

============================================================================
